---------------------------- MODULE Spec2Model ----------------------------
(***************************************************************************)
(* A model of steamer (src/main.rs): one pass that scans the Steam         *)
(* libraries named in libraryfolders.vdf, parses every appmanifest_*.acf,  *)
(* filters tools and runtimes, and rewrites the steam-<appid>.desktop      *)
(* launchers of the applications directory.                                *)
(*                                                                         *)
(* Text is modelled by TLA+ strings, character by character: the regular   *)
(* expressions, to_lowercase, contains, starts_with, ends_with, split and  *)
(* trim are computed on the characters as the library routines do.         *)
(* File names are Rust strings (valid UTF-8), so that to_str() of a file   *)
(* name is always Some.                                                     *)
(***************************************************************************)
EXTENDS Integers, Sequences, FiniteSets, TLC

(***************************************************************************)
(* Option<T>: None is the empty sequence, Some(x) the one-element one.     *)
(***************************************************************************)
None == <<>>
Some(x) == <<x>>
IsSome(o) == Len(o) = 1
Unwrap(o) == o[1]

(***************************************************************************)
(* Characters and strings.                                                 *)
(***************************************************************************)
CharAt(s, i) == SubSeq(s, i, i)

Digits == {"0", "1", "2", "3", "4", "5", "6", "7", "8", "9"}
Whitespace == {" ", "\t", "\n", "\r", "\f"}
Quote == "\""

IsSpace(c) == c \in Whitespace

\* the character classes of the regular expressions: \s, \d and [^"]
InClass(class, c) ==
    CASE class = "\\s" -> c \in Whitespace
      [] class = "\\d" -> c \in Digits
      [] class = "[^\"]" -> c # Quote

UpperCase == "ABCDEFGHIJKLMNOPQRSTUVWXYZ"
LowerCase == "abcdefghijklmnopqrstuvwxyz"
UpperChars == {CharAt(UpperCase, i) : i \in 1..Len(UpperCase)}
ToLowerTable ==
    [c \in UpperChars |->
        CharAt(LowerCase, CHOOSE i \in 1..Len(UpperCase) : CharAt(UpperCase, i) = c)]

\* char::to_lowercase on the letters the model uses
LowerChar(c) == IF c \in UpperChars THEN ToLowerTable[c] ELSE c

RECURSIVE LowerFrom(_, _)
LowerFrom(s, i) ==
    IF i > Len(s) THEN "" ELSE LowerChar(CharAt(s, i)) \o LowerFrom(s, i + 1)

\* str::to_lowercase
to_lowercase(s) == LowerFrom(s, 1)

\* str::starts_with
starts_with(s, p) == Len(p) <= Len(s) /\ SubSeq(s, 1, Len(p)) = p

\* str::ends_with
ends_with(s, p) == Len(p) <= Len(s) /\ SubSeq(s, Len(s) - Len(p) + 1, Len(s)) = p

\* str::contains: the needle is searched at every offset, left to right
RECURSIVE ContainsFrom(_, _, _)
ContainsFrom(s, needle, i) ==
    IF i + Len(needle) - 1 > Len(s) THEN FALSE
    ELSE IF SubSeq(s, i, i + Len(needle) - 1) = needle THEN TRUE
    ELSE ContainsFrom(s, needle, i + 1)

contains(s, needle) == ContainsFrom(s, needle, 1)

\* Vec::contains
VecContains(v, x) == \E i \in 1..Len(v) : v[i] = x

\* the first index >= i of s whose character is not in the class (Len(s)+1 if none)
RECURSIVE SpanEnd(_, _, _)
SpanEnd(s, i, class) ==
    IF i > Len(s) THEN i
    ELSE IF InClass(class, CharAt(s, i)) THEN SpanEnd(s, i + 1, class)
    ELSE i

\* str::trim
RECURSIVE TrimEnd(_)
TrimEnd(s) ==
    IF Len(s) > 0 /\ IsSpace(CharAt(s, Len(s))) THEN TrimEnd(SubSeq(s, 1, Len(s) - 1))
    ELSE s

trim(s) == TrimEnd(SubSeq(s, SpanEnd(s, 1, "\\s"), Len(s)))

\* str::split(','): the pieces between the commas, empty pieces included
RECURSIVE SplitFrom(_, _, _)
SplitFrom(s, start, i) ==
    IF i > Len(s) THEN <<SubSeq(s, start, Len(s))>>
    ELSE IF CharAt(s, i) = "," THEN <<SubSeq(s, start, i - 1)>> \o SplitFrom(s, i + 1, i + 1)
    ELSE SplitFrom(s, start, i + 1)

split_comma(s) == SplitFrom(s, 1, 1)

\* s.split(',').map(|s| s.trim()).collect()
SplitTrim(s) == [i \in 1..Len(split_comma(s)) |-> trim(split_comma(s)[i])]

(***************************************************************************)
(* Regex "<key>"\s+"(<class>+)" : a match starting at offset i, as         *)
(* [value, next] in an Option.  Neither \s nor the class contains the      *)
(* quote, so the greedy runs are the only way to match.                    *)
(***************************************************************************)
MatchAt(s, i, key, class) ==
    LET k == Quote \o key \o Quote
        a == i + Len(k)
    IN  IF CharAt(s, i) # Quote \/ a - 1 > Len(s) \/ SubSeq(s, i, a - 1) # k THEN None
        ELSE LET w == SpanEnd(s, a, "\\s")
             IN  IF w = a \/ w > Len(s) \/ CharAt(s, w) # Quote THEN None
                 ELSE LET v == SpanEnd(s, w + 1, class)
                      IN  IF v = w + 1 \/ v > Len(s) \/ CharAt(s, v) # Quote THEN None
                          ELSE Some([value |-> SubSeq(s, w + 1, v - 1), next |-> v + 1])

\* the leftmost match at an offset >= i
RECURSIVE FindFrom(_, _, _, _)
FindFrom(s, i, key, class) ==
    IF i > Len(s) THEN None
    ELSE LET m == MatchAt(s, i, key, class)
         IN  IF IsSome(m) THEN m ELSE FindFrom(s, i + 1, key, class)

\* Regex::captures(..).get(1): the first match's group
Captures(s, key, class) ==
    LET m == FindFrom(s, 1, key, class)
    IN  IF IsSome(m) THEN Some(Unwrap(m).value) ELSE None

\* Regex::captures_iter: the groups of the successive non-overlapping matches
RECURSIVE CapturesIter(_, _, _, _)
CapturesIter(s, i, key, class) ==
    LET m == FindFrom(s, i, key, class)
    IN  IF IsSome(m)
        THEN <<Unwrap(m).value>> \o CapturesIter(s, Unwrap(m).next, key, class)
        ELSE <<>>

(***************************************************************************)
(* The pure functions of src/main.rs.                                      *)
(***************************************************************************)
DEFAULT_SKIP_KEYWORDS ==
    <<"Proton", "Steam Linux Runtime", "Steamworks", "Common Redistributables",
      "SteamVR", "Dedicated Server", "Soundtrack">>

DEFAULT_IGNORED_APP_IDS == <<"480">>

\* match args.skip_keywords { Some(s) => split and trim, None => defaults }
KeywordsOf(a) ==
    IF IsSome(a.skip_keywords) THEN SplitTrim(Unwrap(a.skip_keywords))
    ELSE DEFAULT_SKIP_KEYWORDS

\* match args.ignored_app_ids { Some(s) => split and trim, None => defaults }
AppIdsOf(a) ==
    IF IsSome(a.ignored_app_ids) THEN SplitTrim(Unwrap(a.ignored_app_ids))
    ELSE DEFAULT_IGNORED_APP_IDS

\* PathBuf::join of a relative component
Join(dir, rel) == IF ends_with(dir, "/") THEN dir \o rel ELSE dir \o "/" \o rel

\* a file's state: read_to_string gives its content, or fails (content = None)
File(name, content) == [ok |-> TRUE, name |-> name, content |-> content]

\* parse_library_folders: Err (None) when the file cannot be read
parse_library_folders(file) ==
    IF ~IsSome(file.content) THEN None
    ELSE Some(CapturesIter(Unwrap(file.content), 1, "path", "[^\"]"))

\* parse_app_manifest with a fault: a missing appid defaults like a missing name
parse_app_manifest_defaulting(content) ==
    IF ~IsSome(content) THEN None
    ELSE LET id == Captures(Unwrap(content), "appid", "\\d")
             nm == Captures(Unwrap(content), "name", "[^\"]")
         IN  Some([appid |-> IF IsSome(id) THEN Unwrap(id) ELSE "0",
                   name |-> IF IsSome(nm) THEN Unwrap(nm) ELSE "Unknown Game"])

\* parse_app_manifest: Err (None) when the file cannot be read or has no appid
parse_app_manifest(content) ==
    IF ~IsSome(content) THEN None
    ELSE LET id == Captures(Unwrap(content), "appid", "\\d")
             nm == Captures(Unwrap(content), "name", "[^\"]")
         IN  IF ~IsSome(id) THEN None
             ELSE Some([appid |-> Unwrap(id),
                        name |-> IF IsSome(nm) THEN Unwrap(nm) ELSE "Unknown Game"])

\* the keyword loop of should_skip
RECURSIVE KeywordLoop(_, _, _)
KeywordLoop(name_lower, ignored_key_words, i) ==
    IF i > Len(ignored_key_words) THEN FALSE
    ELSE IF contains(name_lower, to_lowercase(ignored_key_words[i])) THEN TRUE
    ELSE KeywordLoop(name_lower, ignored_key_words, i + 1)

\* should_skip with a fault: the keyword is compared without lower-casing it
RECURSIVE KeywordLoopCaseSensitive(_, _, _)
KeywordLoopCaseSensitive(name_lower, ignored_key_words, i) ==
    IF i > Len(ignored_key_words) THEN FALSE
    ELSE IF contains(name_lower, ignored_key_words[i]) THEN TRUE
    ELSE KeywordLoopCaseSensitive(name_lower, ignored_key_words, i + 1)

should_skip_case_sensitive(name, appid, ids, key_words) ==
    IF VecContains(ids, appid) THEN TRUE
    ELSE KeywordLoopCaseSensitive(to_lowercase(name), key_words, 1)

should_skip(name, appid, ids, key_words) ==
    LET name_lower == to_lowercase(name)
    IN  IF VecContains(ids, appid) THEN TRUE
        ELSE KeywordLoop(name_lower, key_words, 1)

\* the cleanup filter with a fault: a wrong prefix, and the extension alone
IsSteamDesktopEntryWrongPrefix(filename) ==
    starts_with(filename, "steam_") /\ ends_with(filename, ".desktop")

IsSteamDesktopEntryExtensionOnly(filename) == ends_with(filename, ".desktop")

\* the filter of the cleanup loop
IsSteamDesktopEntry(filename) ==
    starts_with(filename, "steam-") /\ ends_with(filename, ".desktop")

\* the filter of the scan loop: appmanifest_*.acf
IsAppManifest(filename) ==
    starts_with(filename, "appmanifest_") /\ ends_with(filename, ".acf")

\* format!("steam-{}.desktop", game.appid)
desktop_filename(appid) == "steam-" \o appid \o ".desktop"

\* the format! of create_desktop_file
DesktopEntryContent(game, icon_path) ==
    "[Desktop Entry]\nName=" \o game.name
    \o "\nExec=steam steam://rungameid/" \o game.appid
    \o "\nIcon=" \o icon_path
    \o "\nTerminal=false\nType=Application\nCategories=Game;\n"

SteamRoot == "/steam"
IconCacheDir == Join(SteamRoot, "appcache/librarycache")
IconNameLen == 44

\* .find(|path| s.len() == 44 && s.ends_with(".jpg")) over a directory listing
RECURSIVE FindIcon(_, _)
FindIcon(listing, i) ==
    IF i > Len(listing) THEN None
    ELSE IF Len(listing[i]) = IconNameLen /\ ends_with(listing[i], ".jpg")
         THEN Some(listing[i])
    ELSE FindIcon(listing, i + 1)

\* found_icon and icon_path: a missing icon directory lists nothing
IconPath(cache, appid) ==
    LET found == IF appid \in DOMAIN cache THEN FindIcon(cache[appid], 1) ELSE None
    IN  IF IsSome(found) THEN Join(Join(IconCacheDir, appid), Unwrap(found))
        ELSE "steam"

\* a directory as a function from file names to contents
Put(dir, name, data) ==
    [f \in (DOMAIN dir) \cup {name} |-> IF f = name THEN data ELSE dir[f]]

Remove(dir, name) == [f \in (DOMAIN dir) \ {name} |-> dir[f]]

NoFiles == [f \in {} |-> ""]

\* create_desktop_file with a fault: it swallows the errors of File::create
\* and of write_all
create_desktop_file_swallowing(dir, flt, filename, game, icon_path) ==
    IF ~dir.exists \/ filename \in flt.uncreatable
    THEN [ok |-> TRUE, files |-> dir.files]
    ELSE IF filename \in flt.unwritable
    THEN [ok |-> TRUE, files |-> Put(dir.files, filename, "")]
    ELSE [ok |-> TRUE,
          files |-> Put(dir.files, filename, DesktopEntryContent(game, icon_path))]

\* create_desktop_file with a fault: it keeps a file that exists
create_desktop_file_keeping(dir, flt, filename, game, icon_path) ==
    IF ~dir.exists \/ filename \in flt.uncreatable
    THEN [ok |-> FALSE, files |-> dir.files]
    ELSE IF filename \in flt.unwritable
    THEN [ok |-> FALSE, files |-> Put(dir.files, filename, "")]
    ELSE IF filename \in DOMAIN dir.files
    THEN [ok |-> TRUE, files |-> dir.files]
    ELSE [ok |-> TRUE,
          files |-> Put(dir.files, filename, DesktopEntryContent(game, icon_path))]

\* create_desktop_file in the directory dir = [exists, files]: File::create
\* creates or truncates the file, write_all fills it; either may fail (a failed
\* write_all leaves the truncated file)
create_desktop_file(dir, flt, filename, game, icon_path) ==
    IF ~dir.exists \/ filename \in flt.uncreatable
    THEN [ok |-> FALSE, files |-> dir.files]
    ELSE IF filename \in flt.unwritable
    THEN [ok |-> FALSE, files |-> Put(dir.files, filename, "")]
    ELSE [ok |-> TRUE,
          files |-> Put(dir.files, filename, DesktopEntryContent(game, icon_path))]

(***************************************************************************)
(* The inputs of a run: the command line, the Steam installation on disk,  *)
(* the applications directory and the failures of the filesystem.          *)
(***************************************************************************)
MaxRuns == 2

Manifest(appid, name) ==
    Some("\"AppState\"\n{\n\t\"appid\"\t\t\"" \o appid \o "\"\n\t\"name\"\t\t\"" \o name \o "\"\n}")

F100 == File("appmanifest_100.acf", Manifest("100", "Cool Game"))
F100b == File("appmanifest_100b.acf", Manifest("100", "Cool Game GOTY"))
F480 == File("appmanifest_480.acf", Manifest("480", "Normal Game"))
F481 == File("appmanifest_481.acf", Manifest("481", "Normal Game"))
F999 == File("appmanifest_999.acf", Manifest("999", "My Soundtrack Vol 1"))
FProton == File("appmanifest_7.acf", Manifest("7", "proton 9 (Beta)"))
FNoId == File("appmanifest_12.acf", Some("\"AppState\"\n{\n\t\"appid\"\t\t\"\"\n\t\"name\"\t\t\"Broken\"\n}"))
FNoName == File("appmanifest_5.acf", Some("\"AppState\"\n{\n\t\"appid\"\t\t\"5\"\n}"))
FUnreadable == File("appmanifest_13.acf", None)
FReadme == File("readme.txt", Manifest("77", "Not A Manifest"))
EntryErr == [ok |-> FALSE, name |-> "", content |-> None]

Dir(listing) == [readable |-> TRUE, entries |-> listing]
UnreadableDir == [readable |-> FALSE, entries |-> <<>>]

\* the steamapps directories on disk, by path
Layouts ==
    { ("/a/steamapps" :> Dir(<<F100, F480>>)),
      ("/a/steamapps" :> Dir(<<F999, FNoId, F481>>)) @@ ("/b/steamapps" :> Dir(<<F100b>>)),
      ("/a/steamapps" :> Dir(<<F100, F100b>>)) @@ ("/b/steamapps" :> Dir(<<FProton, FNoName>>)),
      ("/a/steamapps" :> Dir(<<FReadme, FUnreadable, F100>>)) @@ ("/b/steamapps" :> Dir(<<F100b, F481>>)),
      ("/a/steamapps" :> Dir(<<FNoId, F100>>)) @@ ("/b/steamapps" :> Dir(<<F481, EntryErr, F999>>)),
      ("/a/steamapps" :> Dir(<<>>)) @@ ("/b/steamapps" :> UnreadableDir) }

PathLine(path) == "\t\t\"path\"\t\t\"" \o path \o "\"\n"

\* steamapps/libraryfolders.vdf: missing, unreadable, or naming libraries
VdfFiles ==
    { [exists |-> FALSE, content |-> None],
      [exists |-> TRUE, content |-> None],
      [exists |-> TRUE, content |-> Some("\"libraryfolders\"\n{\n" \o PathLine("/a") \o PathLine("/b") \o "}")],
      [exists |-> TRUE, content |-> Some("\"libraryfolders\"\n{\n" \o PathLine("/gone") \o PathLine("/b/") \o PathLine("/a") \o PathLine("/a") \o "}")] }

\* appcache/librarycache: the file names of each application's directory
IconCaches ==
    { ("100" :> <<"notes.txt", "0123456789abcdef0123456789abcdef01234567.png",
                  "0123456789abcdef0123456789abcdef01234567.jpg",
                  "89abcdef0123456789abcdef0123456789abcdef.jpg">>)
      @@ ("481" :> <<"notes.txt", "icon.jpg">>) }

\* the command lines
ArgSets ==
    { [skip_keywords |-> None, ignored_app_ids |-> None],
      [skip_keywords |-> Some("Soundtrack"), ignored_app_ids |-> None],
      [skip_keywords |-> Some("vr , cool"), ignored_app_ids |-> Some("481, 5")],
      [skip_keywords |-> None, ignored_app_ids |-> Some("48,0100")] }

\* the applications directory before the first run: missing, or holding files
DesktopDirs ==
    { [exists |-> FALSE, files |-> NoFiles],
      [exists |-> TRUE, files |-> NoFiles],
      [exists |-> TRUE, files |-> ("other.desktop" :> "[Desktop Entry]\nName=Other\n")
                                  @@ ("mysteam-481.desktop" :> "mine")
                                  @@ ("steam-123.desktop" :> "old 123")],
      [exists |-> TRUE, files |-> ("steam-100.desktop" :> "old 100")
                                  @@ ("steam-notes.txt" :> "notes")
                                  @@ ("steam-.desktop" :> "")] }

\* the failures of the filesystem: create_dir_all and read_dir of the
\* applications directory, remove_file, File::create and write_all, by file
NoFaults == [mkdir |-> FALSE, read_dir |-> FALSE, unremovable |-> {},
             uncreatable |-> {}, unwritable |-> {}]
FaultSets ==
    { NoFaults,
      [NoFaults EXCEPT !.mkdir = TRUE, !.unremovable = {"steam-123.desktop"}],
      [NoFaults EXCEPT !.read_dir = TRUE],
      [NoFaults EXCEPT !.uncreatable = {"steam-100.desktop"},
                       !.unwritable = {"steam-481.desktop"}] }

(***************************************************************************)
(* The state.                                                              *)
(***************************************************************************)
VARIABLES
    args,               \* Args: dry_run, skip_keywords, ignored_app_ids
    ignored_keywords,   \* Vec<&str>
    ignored_app_ids,    \* Vec<&str>
    library_vdf,        \* the file steamapps/libraryfolders.vdf
    steamapps,          \* the steamapps directories that exist, by path
    icon_cache,         \* the directories of appcache/librarycache, by appid
    faults,             \* the filesystem calls that fail
    desktop_dir_exists, \* whether the applications directory exists
    desktop_dir,        \* its files: name -> content
    pc,                 \* the position of main
    cleanup_todo,       \* the entries the cleanup loop has not visited yet
    libraries,          \* Vec<PathBuf> of parse_library_folders
    lib_i,              \* the position of the loop over libraries
    entries,            \* the listing the inner loop iterates
    ent_i,              \* the position of the inner loop
    created_count,
    skipped_count,
    exit_code,          \* -1 while running, then the exit status of the process
    error,              \* what ended the run: "", "ConfigNotFound", "FilesystemError"
    run,                \* the number of this run
    before,             \* the applications directory when this run started
    previous            \* what the preceding run reported and left (an Option)

input_vars == <<ignored_keywords, ignored_app_ids, library_vdf, steamapps, icon_cache, faults>>
local_vars == <<cleanup_todo, libraries, lib_i, entries, ent_i, created_count, skipped_count>>
run_vars == <<args, run, before, previous>>
vars == <<args, ignored_keywords, ignored_app_ids, library_vdf, steamapps, icon_cache,
          faults, desktop_dir_exists, desktop_dir, pc, cleanup_todo, libraries, lib_i,
          entries, ent_i, created_count, skipped_count, exit_code, error, run, before,
          previous>>

\* main up to the summary it prints: the arguments are parsed, the ignore
\* lists and the paths computed
Init ==
    /\ \E d \in BOOLEAN, a \in ArgSets :
         args = [dry_run |-> d, skip_keywords |-> a.skip_keywords,
                 ignored_app_ids |-> a.ignored_app_ids]
    /\ ignored_keywords = KeywordsOf(args)
    /\ ignored_app_ids = AppIdsOf(args)
    /\ library_vdf \in VdfFiles
    /\ steamapps \in Layouts
    /\ icon_cache \in IconCaches
    /\ faults \in FaultSets
    /\ \E d \in DesktopDirs :
         /\ desktop_dir_exists = d.exists
         /\ desktop_dir = d.files
         /\ before = d
    /\ pc = "start"
    /\ cleanup_todo = {}
    /\ libraries = <<>>
    /\ lib_i = 1
    /\ entries = <<>>
    /\ ent_i = 1
    /\ created_count = 0
    /\ skipped_count = 0
    /\ exit_code = -1
    /\ error = ""
    /\ run = 1
    /\ previous = None

(***************************************************************************)
(* The steps of main.                                                      *)
(***************************************************************************)
\* CleanupSkipped with a fault: cleanup never runs
CleanupSkippedAlways == TRUE

\* if args.dry_run at the cleanup
CleanupSkipped == args.dry_run

\* EmitSkipped with a fault: the shortcut is written in a dry run too
EmitSkippedNever == FALSE

\* if args.dry_run at the emission
EmitSkipped == args.dry_run

\* CountCreated with a fault: only a written shortcut is counted
CountCreatedWrittenOnly(count) == IF args.dry_run THEN count ELSE count + 1

\* created_count += 1, after either branch
CountCreated(count) == count + 1

\* CleanupFinished with a fault: the loop may stop before the last entry
CleanupFinishedEarly(todo) == TRUE

\* the cleanup loop ends when read_dir has no entry left
CleanupFinished(todo) == todo = {}

\* an Err propagated by ? out of main: the process exits with status 1
Fail ==
    /\ pc' = "failed"
    /\ exit_code' = 1
    /\ error' = "FilesystemError"

\* the dry-run banner: nothing is touched
DryRunBanner ==
    /\ pc = "start"
    /\ CleanupSkipped
    /\ pc' = "check_vdf"
    /\ UNCHANGED <<desktop_dir_exists, desktop_dir, exit_code, error>>
    /\ UNCHANGED <<input_vars, local_vars, run_vars>>

\* fs::create_dir_all(&desktop_dir)? and fs::read_dir(&desktop_dir)?
CleanupStart ==
    /\ pc = "start"
    /\ ~CleanupSkipped
    /\ IF ~desktop_dir_exists /\ faults.mkdir
       THEN Fail /\ UNCHANGED <<desktop_dir_exists, cleanup_todo>>
       ELSE /\ desktop_dir_exists' = TRUE
            /\ IF faults.read_dir
               THEN Fail /\ UNCHANGED cleanup_todo
               ELSE /\ cleanup_todo' = DOMAIN desktop_dir
                    /\ pc' = "cleanup"
                    /\ UNCHANGED <<exit_code, error>>
    /\ UNCHANGED <<desktop_dir, libraries, lib_i, entries, ent_i, created_count, skipped_count>>
    /\ UNCHANGED <<input_vars, run_vars>>

\* one iteration of the cleanup loop, on any entry read_dir has yet to give
CleanupEntry ==
    /\ pc = "cleanup"
    /\ \E filename \in cleanup_todo :
         IF IsSteamDesktopEntry(filename)
         THEN IF filename \in faults.unremovable
              THEN Fail /\ UNCHANGED <<desktop_dir, cleanup_todo>>
              ELSE /\ desktop_dir' = Remove(desktop_dir, filename)
                   /\ cleanup_todo' = cleanup_todo \ {filename}
                   /\ UNCHANGED <<pc, exit_code, error>>
         ELSE /\ cleanup_todo' = cleanup_todo \ {filename}
              /\ UNCHANGED <<desktop_dir, pc, exit_code, error>>
    /\ UNCHANGED <<desktop_dir_exists, libraries, lib_i, entries, ent_i, created_count, skipped_count>>
    /\ UNCHANGED <<input_vars, run_vars>>

\* the end of the cleanup loop
CleanupEnd ==
    /\ pc = "cleanup"
    /\ CleanupFinished(cleanup_todo)
    /\ pc' = "check_vdf"
    /\ cleanup_todo' = {}
    /\ UNCHANGED <<desktop_dir_exists, desktop_dir, exit_code, error>>
    /\ UNCHANGED <<libraries, lib_i, entries, ent_i, created_count, skipped_count>>
    /\ UNCHANGED <<input_vars, run_vars>>

\* if !library_vdf.exists() { exit(1) }, then parse_library_folders(..)?
CheckLibraryVdf ==
    /\ pc = "check_vdf"
    /\ IF ~library_vdf.exists
       THEN /\ pc' = "failed"
            /\ exit_code' = 1
            /\ error' = "ConfigNotFound"
            /\ UNCHANGED <<libraries, lib_i>>
       ELSE IF ~IsSome(parse_library_folders(library_vdf))
       THEN Fail /\ UNCHANGED <<libraries, lib_i>>
       ELSE /\ libraries' = Unwrap(parse_library_folders(library_vdf))
            /\ lib_i' = 1
            /\ pc' = "libs"
            /\ UNCHANGED <<exit_code, error>>
    /\ UNCHANGED <<desktop_dir_exists, desktop_dir, cleanup_todo, entries, ent_i,
                   created_count, skipped_count>>
    /\ UNCHANGED <<input_vars, run_vars>>

\* the head of the loop over the libraries: a library without steamapps is
\* passed over, fs::read_dir(&steamapps)? lists the others
NextLibrary ==
    /\ pc = "libs"
    /\ lib_i <= Len(libraries)
    /\ LET dir == Join(libraries[lib_i], "steamapps")
       IN  IF dir \notin DOMAIN steamapps
           THEN /\ lib_i' = lib_i + 1
                /\ UNCHANGED <<pc, entries, ent_i, exit_code, error>>
           ELSE IF ~steamapps[dir].readable
           THEN Fail /\ UNCHANGED <<lib_i, entries, ent_i>>
           ELSE /\ entries' = steamapps[dir].entries
                /\ ent_i' = 1
                /\ pc' = "entries"
                /\ UNCHANGED <<lib_i, exit_code, error>>
    /\ UNCHANGED <<desktop_dir_exists, desktop_dir, cleanup_todo, libraries,
                   created_count, skipped_count>>
    /\ UNCHANGED <<input_vars, run_vars>>

\* one iteration of the loop over a library's entries
ScanEntry ==
    /\ pc = "entries"
    /\ ent_i <= Len(entries)
    /\ LET entry == entries[ent_i]
           parsed == parse_app_manifest(entry.content)
           game == Unwrap(parsed)
           filename == desktop_filename(game.appid)
           written == create_desktop_file(
                          [exists |-> desktop_dir_exists, files |-> desktop_dir],
                          faults, filename, game, IconPath(icon_cache, game.appid))
       IN  IF ~entry.ok
           THEN Fail /\ UNCHANGED <<desktop_dir, ent_i, created_count, skipped_count>>
           ELSE IF ~(IsAppManifest(entry.name) /\ IsSome(parsed))
           THEN /\ ent_i' = ent_i + 1
                /\ UNCHANGED <<desktop_dir, pc, created_count, skipped_count, exit_code, error>>
           ELSE IF should_skip(game.name, game.appid, ignored_app_ids, ignored_keywords)
           THEN /\ skipped_count' = skipped_count + 1
                /\ ent_i' = ent_i + 1
                /\ UNCHANGED <<desktop_dir, pc, created_count, exit_code, error>>
           ELSE IF EmitSkipped
           THEN /\ created_count' = CountCreated(created_count)
                /\ ent_i' = ent_i + 1
                /\ UNCHANGED <<desktop_dir, pc, skipped_count, exit_code, error>>
           ELSE IF ~written.ok
           THEN /\ desktop_dir' = written.files
                /\ Fail
                /\ UNCHANGED <<ent_i, created_count, skipped_count>>
           ELSE /\ desktop_dir' = written.files
                /\ created_count' = CountCreated(created_count)
                /\ ent_i' = ent_i + 1
                /\ UNCHANGED <<pc, skipped_count, exit_code, error>>
    /\ UNCHANGED <<desktop_dir_exists, cleanup_todo, libraries, lib_i, entries>>
    /\ UNCHANGED <<input_vars, run_vars>>

\* the end of a library's entries: on to the next library
EndLibrary ==
    /\ pc = "entries"
    /\ ent_i > Len(entries)
    /\ lib_i' = lib_i + 1
    /\ pc' = "libs"
    /\ UNCHANGED <<desktop_dir_exists, desktop_dir, cleanup_todo, libraries, entries, ent_i,
                   created_count, skipped_count, exit_code, error>>
    /\ UNCHANGED <<input_vars, run_vars>>

\* the end of the loop over the libraries: the counts are printed, Ok(())
Done ==
    /\ pc = "libs"
    /\ lib_i > Len(libraries)
    /\ pc' = "done"
    /\ exit_code' = 0
    /\ UNCHANGED <<desktop_dir_exists, desktop_dir, error>>
    /\ UNCHANGED <<input_vars, local_vars, run_vars>>

\* the program is run again on the same installation, in either mode, after a
\* run that completed
Rerun ==
    /\ pc = "done"
    /\ run < MaxRuns
    /\ \E d \in BOOLEAN : args' = [args EXCEPT !.dry_run = d]
    /\ run' = run + 1
    /\ previous' = Some([dry_run |-> args.dry_run, created_count |-> created_count,
                         skipped_count |-> skipped_count, exists |-> desktop_dir_exists,
                         files |-> desktop_dir])
    /\ before' = [exists |-> desktop_dir_exists, files |-> desktop_dir]
    /\ pc' = "start"
    /\ cleanup_todo' = {}
    /\ libraries' = <<>>
    /\ lib_i' = 1
    /\ entries' = <<>>
    /\ ent_i' = 1
    /\ created_count' = 0
    /\ skipped_count' = 0
    /\ exit_code' = -1
    /\ error' = ""
    /\ UNCHANGED <<desktop_dir_exists, desktop_dir>>
    /\ UNCHANGED input_vars

Next ==
    \/ DryRunBanner
    \/ CleanupStart
    \/ CleanupEntry
    \/ CleanupEnd
    \/ CheckLibraryVdf
    \/ NextLibrary
    \/ ScanEntry
    \/ EndLibrary
    \/ Done
    \/ Rerun

Spec == Init /\ [][Next]_vars

(***************************************************************************)
(* What a run is expected to find, stated on the inputs alone: the entries *)
(* of the libraries of libraryfolders.vdf whose steamapps directory        *)
(* exists, in processing order, and the records parsed from them.          *)
(***************************************************************************)
\* a is a substring of b
IsSubstring(a, b) == \E i \in 0..(Len(b) - Len(a)) : SubSeq(b, i + 1, i + Len(a)) = a

\* the classifier as the specification states it, on sets
Suppresses(name, id, ids, keywords) ==
    \/ id \in ids
    \/ LET lower == to_lowercase(name)
       IN  \E k \in keywords : IsSubstring(to_lowercase(k), lower)

\* the ignore sets of a command line: the built-in ones, or the override's
\* comma separated items alone
ExpectedKeywords ==
    CASE args.skip_keywords = None ->
           {"Proton", "Steam Linux Runtime", "Steamworks", "Common Redistributables",
            "SteamVR", "Dedicated Server", "Soundtrack"}
      [] args.skip_keywords = Some("Soundtrack") -> {"Soundtrack"}
      [] args.skip_keywords = Some("vr , cool") -> {"vr", "cool"}

ExpectedIds ==
    CASE args.ignored_app_ids = None -> {"480"}
      [] args.ignored_app_ids = Some("481, 5") -> {"481", "5"}
      [] args.ignored_app_ids = Some("48,0100") -> {"48", "0100"}

\* the name is steam-<something>.desktop
NameMatches(f) ==
    /\ Len(f) >= 14
    /\ SubSeq(f, 1, 6) = "steam-"
    /\ SubSeq(f, Len(f) - 7, Len(f)) = ".desktop"

\* the name is steam-<digits>.desktop
IsShortcutName(f) ==
    /\ NameMatches(f)
    /\ Len(f) > 14
    /\ \A i \in 7..(Len(f) - 8) : CharAt(f, i) \in Digits

RECURSIVE EntriesFrom(_, _)
EntriesFrom(libs, i) ==
    IF i > Len(libs) THEN <<>>
    ELSE LET dir == Join(libs[i], "steamapps")
         IN  (IF dir \in DOMAIN steamapps THEN steamapps[dir].entries ELSE <<>>)
             \o EntriesFrom(libs, i + 1)

AllEntries == EntriesFrom(Unwrap(parse_library_folders(library_vdf)), 1)

IsParsedManifest(e) ==
    e.ok /\ IsAppManifest(e.name) /\ IsSome(parse_app_manifest(e.content))

\* the records parsed from a sequence of entries, in order
RECURSIVE RecordsFrom(_, _)
RecordsFrom(es, i) ==
    IF i > Len(es) THEN <<>>
    ELSE LET p == IF es[i].ok /\ IsAppManifest(es[i].name)
                  THEN parse_app_manifest(es[i].content) ELSE None
         IN  (IF IsSome(p) THEN <<Unwrap(p)>> ELSE <<>>) \o RecordsFrom(es, i + 1)

IsSuppressedGame(g) == Suppresses(g.name, g.appid, ExpectedIds, ExpectedKeywords)

IsAcceptedGame(g) == ~IsSuppressedGame(g)

\* the accepted records, in processing order
AcceptedSeq == SelectSeq(RecordsFrom(AllEntries, 1), IsAcceptedGame)

\* the suppressed ones
SuppressedSeq == SelectSeq(RecordsFrom(AllEntries, 1), IsSuppressedGame)

ShortcutName(g) == "steam-" \o g.appid \o ".desktop"

GeneratedFiles(files) == {f \in DOMAIN files : NameMatches(f)}

(***************************************************************************)
(* The claims.                                                             *)
(***************************************************************************)
\* C1: after a run that wrote (no dry run) and completed, the files named
\* steam-*.desktop of the applications directory are exactly the
\* steam-<id>.desktop of the accepted records, whatever was there before.
C1_OutputIsAcceptedSet ==
    (pc = "done" /\ ~args.dry_run) =>
        LET acc == AcceptedSeq
        IN  GeneratedFiles(desktop_dir) = {ShortcutName(acc[i]) : i \in 1..Len(acc)}

C1_Witness ==
    /\ pc = "done"
    /\ ~args.dry_run
    /\ run = 1
    /\ skipped_count > 0
    /\ GeneratedFiles(desktop_dir) # {}
    /\ \E f \in GeneratedFiles(before.files) : f \notin DOMAIN desktop_dir

\* C2: in a run that writes, a file whose name is not steam-*.desktop is kept
\* with its content in every state; when the cleanup loop has ended no file
\* that was named steam-*.desktop before the run is left; and a file that is
\* new or changed is named steam-<digits>.desktop.
C2_CleanupTouchesOnlyOwnFiles ==
    ~args.dry_run =>
        /\ \A f \in DOMAIN before.files :
             ~NameMatches(f) => f \in DOMAIN desktop_dir /\ desktop_dir[f] = before.files[f]
        /\ pc = "check_vdf" => GeneratedFiles(desktop_dir) = {}
        /\ \A f \in DOMAIN desktop_dir :
             (f \notin DOMAIN before.files \/ desktop_dir[f] # before.files[f])
                 => IsShortcutName(f)

C2_Witness ==
    /\ pc = "done"
    /\ ~args.dry_run
    /\ "other.desktop" \in DOMAIN desktop_dir
    /\ "steam-123.desktop" \in DOMAIN before.files
    /\ "steam-123.desktop" \notin DOMAIN desktop_dir
    /\ \E f \in DOMAIN desktop_dir : f \notin DOMAIN before.files

\* C3: in every state of a dry run the applications directory is as it was
\* before the run: not created, nothing deleted, nothing written.
C3_DryRunMutatesNothing ==
    args.dry_run =>
        /\ desktop_dir_exists = before.exists
        /\ desktop_dir = before.files

C3_Witness ==
    /\ args.dry_run
    /\ pc = "done"
    /\ created_count > 0
    /\ GeneratedFiles(before.files) # {}
    /\ LET acc == AcceptedSeq
       IN  \E i \in 1..Len(acc) : ShortcutName(acc[i]) \notin DOMAIN desktop_dir

\* C4: a dry run and a writing run of the same inputs that both complete
\* report the same counts: one accepted per accepted record, one skipped
\* per suppressed record, in either mode.
C4_CountsAgreeAcrossModes ==
    pc = "done" =>
        /\ created_count = Len(AcceptedSeq)
        /\ skipped_count = Len(SuppressedSeq)
        /\ (IsSome(previous) /\ Unwrap(previous).dry_run # args.dry_run) =>
             /\ created_count = Unwrap(previous).created_count
             /\ skipped_count = Unwrap(previous).skipped_count

C4_Witness ==
    /\ pc = "done"
    /\ IsSome(previous)
    /\ Unwrap(previous).dry_run # args.dry_run
    /\ created_count > 0
    /\ skipped_count > 0

\* C5: a second writing run on unchanged inputs leaves the applications
\* directory as the first writing run left it.
C5_Idempotent ==
    (pc = "done" /\ ~args.dry_run /\ IsSome(previous) /\ ~Unwrap(previous).dry_run) =>
        /\ desktop_dir_exists = Unwrap(previous).exists
        /\ desktop_dir = Unwrap(previous).files

C5_Witness ==
    /\ pc = "done"
    /\ ~args.dry_run
    /\ IsSome(previous)
    /\ ~Unwrap(previous).dry_run
    /\ GeneratedFiles(desktop_dir) # {}
    /\ DOMAIN desktop_dir # GeneratedFiles(desktop_dir)

\* the text holds "appid", white space, and a quoted run of digits
HasAppidField(text) ==
    \E i \in 1..Len(text) :
        /\ i + 6 <= Len(text)
        /\ SubSeq(text, i, i + 6) = "\"appid\""
        /\ \E w \in 1..(Len(text) - i - 6) :
             /\ \A j \in (i + 7)..(i + 6 + w) : CharAt(text, j) \in Whitespace
             /\ i + 7 + w <= Len(text)
             /\ CharAt(text, i + 7 + w) = Quote
             /\ \E d \in 1..(Len(text) - i - 7 - w) :
                  /\ \A j \in (i + 8 + w)..(i + 7 + w + d) : CharAt(text, j) \in Digits
                  /\ i + 8 + w + d <= Len(text)
                  /\ CharAt(text, i + 8 + w + d) = Quote

\* the inner loop is at a readable appmanifest_*.acf that has no appid field
AtManifestWithoutAppid ==
    /\ pc = "entries"
    /\ ent_i <= Len(entries)
    /\ entries[ent_i].ok
    /\ IsAppManifest(entries[ent_i].name)
    /\ IsSome(entries[ent_i].content)
    /\ ~HasAppidField(Unwrap(entries[ent_i].content))

\* the entries a completed run went through that hold an appid field
ManifestsWithAppid ==
    LET Has(e) == /\ e.ok
                  /\ IsAppManifest(e.name)
                  /\ IsSome(e.content)
                  /\ HasAppidField(Unwrap(e.content))
    IN  SelectSeq(AllEntries, Has)

\* C6: a manifest without the appid field is passed over alone: the step
\* that meets it changes neither the applications directory nor a counter,
\* does not end the run and moves to the next entry; a run that completes has
\* counted every manifest that has the field, as accepted or as skipped.
C6_MissingAppidSkipsOneFile ==
    /\ [][AtManifestWithoutAppid =>
            /\ pc' = "entries"
            /\ ent_i' = ent_i + 1
            /\ UNCHANGED <<desktop_dir_exists, desktop_dir, created_count, skipped_count,
                           libraries, lib_i, entries, exit_code, error>>]_vars
    /\ [](pc = "done" => created_count + skipped_count = Len(ManifestsWithAppid))

C6_Witness ==
    /\ pc = "done"
    /\ ~args.dry_run
    /\ LET all == AllEntries
       IN  \E i \in 1..Len(all) :
             /\ all[i].name = "appmanifest_12.acf"
             /\ LET later == SelectSeq(RecordsFrom(all, i + 1), IsAcceptedGame)
                IN  /\ later # <<>>
                    /\ ShortcutName(later[1]) \in DOMAIN desktop_dir

\* the inner loop is at a manifest that parses
AtParsedManifest ==
    /\ pc = "entries"
    /\ ent_i <= Len(entries)
    /\ IsParsedManifest(entries[ent_i])

CurrentGame == Unwrap(parse_app_manifest(entries[ent_i].content))

\* C7: a record is suppressed iff its id equals an ignored id or its
\* lower-cased name contains a lower-cased ignored keyword; the ignore sets
\* are the built-in ones unless the command line overrides them, and then the
\* override alone.  The three cases of the specification come out as stated.
C7_ClassifyCaseInsensitiveExactId ==
    /\ should_skip("My Soundtrack Vol 1", "999",
                   AppIdsOf([skip_keywords |-> Some("Soundtrack"), ignored_app_ids |-> None]),
                   KeywordsOf([skip_keywords |-> Some("Soundtrack"), ignored_app_ids |-> None]))
    /\ should_skip("Normal Game", "480",
                   AppIdsOf([skip_keywords |-> None, ignored_app_ids |-> None]),
                   KeywordsOf([skip_keywords |-> None, ignored_app_ids |-> None]))
    /\ ~should_skip("Normal Game", "481",
                    AppIdsOf([skip_keywords |-> None, ignored_app_ids |-> None]),
                    KeywordsOf([skip_keywords |-> None, ignored_app_ids |-> None]))
    /\ [][AtParsedManifest =>
            IF IsSuppressedGame(CurrentGame)
            THEN skipped_count' = skipped_count + 1 /\ created_count' = created_count
            ELSE /\ skipped_count' = skipped_count
                 /\ created_count' = created_count + 1 \/ pc' = "failed"]_vars

C7_Witness ==
    /\ pc = "entries"
    /\ args.skip_keywords = Some("vr , cool")
    /\ ent_i = 2
    /\ entries[1].name = "appmanifest_100.acf"
    /\ skipped_count = 1
    /\ created_count = 0

\* the inner loop is at an accepted record whose shortcut cannot be written
AtFailingWrite ==
    /\ AtParsedManifest
    /\ ~args.dry_run
    /\ LET g == CurrentGame
       IN  /\ IsAcceptedGame(g)
           /\ ShortcutName(g) \in (faults.uncreatable \cup faults.unwritable)

\* C8: a failed write of a shortcut ends the run at once with exit status 1:
\* nothing is counted, the loops do not advance, every other file of the
\* applications directory stays as it is, and no step follows a failed run.
C8_WriteFailureIsFatal ==
    [][/\ pc # "failed"
       /\ AtFailingWrite =>
            /\ pc' = "failed"
            /\ exit_code' = 1
            /\ error' = "FilesystemError"
            /\ UNCHANGED <<created_count, skipped_count, lib_i, ent_i, entries, libraries>>
            /\ LET target == ShortcutName(CurrentGame)
               IN  /\ DOMAIN desktop_dir' \subseteq (DOMAIN desktop_dir) \cup {target}
                   /\ \A f \in (DOMAIN desktop_dir) \ {target} :
                        f \in DOMAIN desktop_dir' /\ desktop_dir'[f] = desktop_dir[f]]_vars

C8_Witness ==
    /\ pc = "failed"
    /\ ~args.dry_run
    /\ ent_i <= Len(entries)
    /\ entries[ent_i].ok
    /\ created_count > 0
    /\ GeneratedFiles(desktop_dir) # {}
    /\ \E f \in GeneratedFiles(before.files) : f \notin DOMAIN desktop_dir

\* the last record of acc that has the id of the i-th
LastWithId(acc, i) ==
    CHOOSE j \in i..Len(acc) :
        /\ acc[j].appid = acc[i].appid
        /\ \A k \in (j + 1)..Len(acc) : acc[k].appid # acc[i].appid

\* C9: every accepted manifest is counted, duplicates of an id included, and
\* after a writing run steam-<id>.desktop holds the name and icon of the last
\* accepted manifest of that id in processing order.
C9_DuplicateIdsLastWins ==
    pc = "done" =>
        LET acc == AcceptedSeq
        IN  /\ created_count = Len(acc)
            /\ ~args.dry_run =>
                 /\ \A i \in 1..Len(acc) :
                      LET g == acc[LastWithId(acc, i)]
                      IN  /\ ShortcutName(g) \in DOMAIN desktop_dir
                          /\ desktop_dir[ShortcutName(g)]
                                = DesktopEntryContent(g, IconPath(icon_cache, g.appid))
                 /\ Cardinality(GeneratedFiles(desktop_dir)) <= created_count

C9_Witness ==
    /\ pc = "done"
    /\ ~args.dry_run
    /\ created_count > Cardinality(GeneratedFiles(desktop_dir))
    /\ LET acc == AcceptedSeq
       IN  \E i, j \in 1..Len(acc) :
             /\ i < j
             /\ acc[i].appid = acc[j].appid
             /\ acc[i].name # acc[j].name

\* C10: without libraryfolders.vdf no library is scanned and no shortcut is
\* written, and the check of the file ends the run with exit status 1; at
\* that abort a writing run has created the applications directory and left
\* no steam-*.desktop in it, a dry run has left the directory as it was.
C10_MissingConfigAbortsAfterCleanup ==
    /\ [](~library_vdf.exists =>
            /\ pc \notin {"libs", "entries", "done"}
            /\ libraries = <<>>
            /\ created_count = 0
            /\ skipped_count = 0
            /\ DOMAIN desktop_dir \subseteq DOMAIN before.files)
    /\ [](error = "ConfigNotFound" =>
            /\ ~library_vdf.exists
            /\ pc = "failed"
            /\ exit_code = 1
            /\ IF args.dry_run
               THEN desktop_dir_exists = before.exists /\ desktop_dir = before.files
               ELSE desktop_dir_exists /\ GeneratedFiles(desktop_dir) = {})
    /\ [][(pc = "check_vdf" /\ ~library_vdf.exists) =>
            (pc' = "failed" /\ exit_code' = 1 /\ error' = "ConfigNotFound")]_vars

C10_Witness ==
    /\ error = "ConfigNotFound"
    /\ ~args.dry_run
    /\ ~before.exists \/ GeneratedFiles(before.files) # {}
    /\ exit_code = 1

=============================================================================
